---- MODULE Spec2Model ----
(***************************************************************************)
(* Model of b2.Writer (src/b2/writer.go): the foreground path running the  *)
(* caller's Write/Close calls, the upload goroutines started by thread(),  *)
(* the unbuffered channel w.ready, the WaitGroup w.wg, the two sync.Once   *)
(* guards and the first-error register w.err with its context cancel.      *)
(*                                                                         *)
(* The remote collaborator (startLargeFile, getUploadPartURL, uploadPart,  *)
(* finishLargeFile, getUploadURL, uploadFile) is the environment: each     *)
(* call returns one of the outcomes its signature allows.  A remote upload *)
(* reads bytes from the io.Reader it is handed and can succeed only when   *)
(* it received as many bytes as the size it was told (server-side          *)
(* verification); the count it reports is the count it read.               *)
(***************************************************************************)
EXTENDS Integers, Sequences, FiniteSets, TLC

\* ------------------------------------------------------------------ bounds
MaxLen    == 3   \* total number of bytes the caller offers to Write
MaxFaults == 2   \* number of remote calls the environment lets fail
MaxCU     == 2   \* largest configured ConcurrentUploads

\* w.csize: the chunk-size threshold (1e8 unless the session overrides it)
CSize == 2

Nil      == "nil"
Canceled == "context canceled"            \* w.ctx.Err() after cancel
\* error values of the remote side: one the retry predicate accepts, two it
\* does not (two, so that a first and a later fatal error can be told apart)
Errors   == {"ETransient", "EFatal1", "EFatal2"}
Fatal    == {"EFatal1", "EFatal2"}
Workers  == 1..MaxCU
MaxChunks == (MaxLen \div CSize) + 1
NoChunk  == [id |-> 0, size |-> 0, sha1 |-> 0, buf |-> <<>>]

VARIABLES
  \* Writer fields
  cbuf, chsh, cidx, ready, wg, onceDone, doneDone, err, cancelled, CU,
  \* foreground path: program point, remaining argument slice, bytes accepted
  \* by the enclosing Write frames, which caller sendChunk returns to, the
  \* bytes.Reader position of simpleWriteFile
  pc, p, acc, sender, sr,
  \* goroutines: program point, chunk held, reader position, lease held
  \* (the n-th lease this goroutine obtained)
  wpc, wchunk, wr, wfc,
  \* environment: faults left, reupload(nil)
  faults, retryNil,
  \* history: call counters, input offered, chunks handed off, successful
  \* uploads, uploadPart attempts on the chunk held, simple uploads, results
  calls, input, handed, stored, okCount, watt, simple, ret, firstClose,
  ncancel, firstErr, errAtCall, lateHandoff,
  \* len(p) of the Write call in progress (0 between calls)
  plen

bufVars    == <<cbuf, chsh, cidx>>
syncVars   == <<ready, wg, onceDone, doneDone, CU>>
errVars    == <<err, cancelled, ncancel>>
fgVars     == <<pc, p, acc, sender, sr>>
thVars     == <<wpc, wchunk, wr, wfc>>
envVars    == <<faults, retryNil>>
upVars     == <<stored, okCount, watt>>
callVars   == <<input, errAtCall, plen>>
retVars    == <<ret, firstClose>>
histVars   == <<calls, handed, simple, lateHandoff>>
vars == <<bufVars, syncVars, errVars, fgVars, thVars, envVars, upVars,
          callVars, retVars, histVars, firstErr>>

\* ------------------------------------------------------------- pure helpers
\* hash.Hash over the bytes written since the last reset: chsh holds the
\* accumulator, Sha1Write folds one more slice in, as io.MultiWriter does
Sha1New == 7
RECURSIVE Sha1Write(_, _)
Sha1Write(h, s) ==
  IF s = <<>> THEN h
  ELSE Sha1Write((h * 31 + Head(s) + 1) % 65521, Tail(s))

\* chsh.Sum(nil): finalise the accumulator into the digest that is sent
Sha1Sum(h) == (h * 2 + 1) % 65521

\* the digest of a whole payload, as the remote side would recompute it
Sha1Of(s) == Sha1Sum(Sha1Write(Sha1New, s))

\* the retry-policy predicate w.o.b.r.reupload: a pure function of the error
reupload(e) ==
  IF e = Nil THEN retryNil ELSE e = "ETransient"

\* the next n bytes of the caller's stream: byte k of the stream has value k,
\* so that any loss, duplication or reordering of bytes is visible
NextBytes(n) == [i \in 1..n |-> Len(input) + i]

Bump(f) == [calls EXCEPT ![f] = @ + 1]

\* what a failing remote call may return: an injected fault while the fault
\* budget lasts, the context's error once the session context is cancelled.
\* The code never inspects the error of a call it does not retry
\* (startLargeFile, getUploadPartURL, getUploadURL, finishLargeFile), so the
\* two values of Fatal stand for every error of those calls
FailErrs ==
  (IF faults > 0 THEN Fatal ELSE {}) \cup (IF cancelled THEN {Canceled} ELSE {})

\* the errors of a failing upload call, which the retry predicate classifies
UploadErrs ==
  (IF faults > 0 THEN Errors ELSE {}) \cup (IF cancelled THEN {Canceled} ELSE {})

Pay(e) == IF e = Canceled THEN faults ELSE faults - 1

\* ---------------------------------------------------------------- ErrorState
\* faulty variant of setErr: the last error wins
setErrLastWins(e) ==
  IF e # Nil
    THEN /\ err' = e
         /\ cancelled' = TRUE
         /\ ncancel' = IF cancelled THEN ncancel ELSE ncancel + 1
    ELSE UNCHANGED errVars

\* faulty variant of setErr: the first error is kept, but every later error
\* cancels again
setErrRecancel(e) ==
  IF e # Nil
    THEN /\ err' = IF err = Nil THEN e ELSE err
         /\ cancelled' = TRUE
         /\ ncancel' = ncancel + 1
    ELSE UNCHANGED errVars

\* setErr (lines 76-87): no-op on nil or when an error is recorded, else
\* record the error and cancel the session context
setErr(e) ==
  IF e # Nil /\ err = Nil
    THEN /\ err' = e
         /\ cancelled' = TRUE
         /\ ncancel' = ncancel + 1
    ELSE UNCHANGED errVars

\* faulty variant of getErr: the recorded error is never seen
getErrBlind == Nil

\* getErr (lines 89-93): the recorded error, read under the lock
getErr == err

\* faulty variant of the once guard: every flush runs the start-up again
OnceUnguarded == TRUE

\* sync.Once w.once: whether once.Do still has to run its function
OnceFirst == ~onceDone

\* faulty variant of the chunk id: ids start at 0
ChunkIdFromZero == cidx

\* line 218: the id the next chunk is sent with
ChunkId == cidx + 1

\* firstErr remembers the first non-nil value w.err ever held
TrackFirst == firstErr' = IF firstErr = Nil THEN err' ELSE firstErr

\* ---------------------------------------------------------------------- Init
Init ==
  /\ cbuf = <<>> /\ chsh = Sha1New /\ cidx = 0
  /\ ready = "nil" /\ wg = 0 /\ onceDone = FALSE /\ doneDone = FALSE
  /\ CU \in 0..MaxCU
  /\ err = Nil /\ cancelled = FALSE /\ ncancel = 0
  /\ pc = "idle" /\ p = <<>> /\ acc = 0 /\ sender = "none" /\ sr = 0
  /\ wpc = [w \in Workers |-> "unstarted"]
  /\ wchunk = [w \in Workers |-> NoChunk]
  /\ wr = [w \in Workers |-> 0]
  /\ wfc = [w \in Workers |-> 0]
  /\ faults = MaxFaults /\ retryNil \in BOOLEAN
  /\ calls = [start |-> 0, lease |-> 0, uploadPart |-> 0, finish |-> 0,
              uploadURL |-> 0, uploadFile |-> 0]
  /\ input = <<>> /\ handed = <<>> /\ stored = {} /\ simple = <<>>
  /\ okCount = [i \in 1..MaxChunks |-> 0]
  /\ watt = [w \in Workers |-> <<>>]
  /\ ret = [op |-> "none", n |-> 0, err |-> Nil]
  /\ firstClose = "none"
  /\ errAtCall = Nil /\ plen = 0
  /\ firstErr = Nil /\ lateHandoff = FALSE

\* --------------------------------------------------------------------- Write
\* the caller invokes Write(p) with the next n bytes of its stream (any
\* number of calls, n = 0 included), as long as it has not called Close
CallWrite(n) ==
  /\ pc = "idle" /\ ~doneDone
  /\ Len(input) + n <= MaxLen
  /\ p' = NextBytes(n)
  /\ input' = input \o NextBytes(n)
  /\ errAtCall' = err
  /\ plen' = n
  /\ acc' = 0
  /\ pc' = "w_geterr"
  /\ UNCHANGED <<bufVars, syncVars, errVars, sender, sr, thVars, envVars,
                 upVars, retVars, histVars>>
  /\ TrackFirst

\* faulty variant of Write's result: the count is dropped
WriteRetNoCount(n, e) == [op |-> "write", n |-> 0, err |-> e]

\* the (int, error) a Write call returns
WriteRet(n, e) == [op |-> "write", n |-> n, err |-> e]

\* line 137: getErr at the entry of Write and of each recursive Write; the
\* enclosing frames add their own counts (acc) and pass the error on
WriteGetErr ==
  /\ pc = "w_geterr"
  /\ IF getErr # Nil
       THEN /\ ret' = WriteRet(acc, getErr)
            /\ pc' = "idle"
            /\ p' = <<>> /\ acc' = 0 /\ plen' = 0
       ELSE /\ pc' = "w_buf"
            /\ UNCHANGED <<ret, p, acc, plen>>
  /\ UNCHANGED <<bufVars, syncVars, errVars, sender, sr, thVars, envVars,
                 upVars, input, errAtCall, firstClose, histVars>>
  /\ TrackFirst

\* lines 143-145: the slice fits below the threshold
WriteFits ==
  /\ pc = "w_buf"
  /\ Len(p) < CSize - Len(cbuf)
  /\ cbuf' = cbuf \o p
  /\ chsh' = Sha1Write(chsh, p)
  /\ ret' = WriteRet(acc + Len(p), Nil)
  /\ pc' = "idle"
  /\ p' = <<>> /\ acc' = 0 /\ plen' = 0
  /\ UNCHANGED <<cidx, syncVars, errVars, sender, sr, thVars, envVars, upVars,
                 input, errAtCall, firstClose, histVars>>
  /\ TrackFirst

\* lines 147-152, 193-194, 213: fill the buffer to the threshold and enter
\* sendChunk; when once.Do has already run its err stays nil and the select
\* is next
WriteFill ==
  /\ pc = "w_buf"
  /\ LET left == CSize - Len(cbuf) IN
       /\ Len(p) >= left
       /\ cbuf' = cbuf \o SubSeq(p, 1, left)
       /\ chsh' = Sha1Write(chsh, SubSeq(p, 1, left))
       /\ acc' = acc + left
       /\ p' = SubSeq(p, left + 1, Len(p))
  /\ sender' = "write"
  /\ pc' = IF OnceFirst THEN "s_once" ELSE "s_select"
  /\ UNCHANGED <<cidx, syncVars, errVars, sr, thVars, envVars, upVars,
                 callVars, retVars, histVars>>
  /\ TrackFirst

\* ----------------------------------------------------------------- sendChunk
\* lines 194-212: first flush, startLargeFile succeeds: make the channel and
\* start max(1, ConcurrentUploads) goroutines
StartLargeFileOk ==
  /\ pc = "s_once" /\ OnceFirst
  /\ onceDone' = TRUE
  /\ calls' = Bump("start")
  /\ ready' = "open"
  /\ CU' = IF CU < 1 THEN 1 ELSE CU
  /\ wpc' = [w \in Workers |-> IF w <= CU' THEN "lease" ELSE "unstarted"]
  /\ pc' = "s_select"
  /\ UNCHANGED <<bufVars, wg, doneDone, errVars, p, acc, sender, sr, wchunk,
                 wr, wfc, envVars, upVars, callVars, retVars, handed, simple,
                 lateHandoff>>
  /\ TrackFirst

\* lines 199-203, 213-215 and Write's 152-155: startLargeFile fails, sendChunk
\* returns the error, Write records it and returns (i, getErr())
StartLargeFileFail(e) ==
  /\ pc = "s_once" /\ OnceFirst /\ sender = "write"
  /\ e \in FailErrs
  /\ faults' = Pay(e)
  /\ onceDone' = TRUE
  /\ calls' = Bump("start")
  /\ setErr(e)
  /\ ret' = WriteRet(acc, getErr')
  /\ pc' = "idle"
  /\ p' = <<>> /\ acc' = 0 /\ plen' = 0
  /\ UNCHANGED <<bufVars, ready, wg, doneDone, CU, sender, sr, thVars,
                 retryNil, upVars, input, errAtCall, firstClose, handed,
                 simple, lateHandoff>>
  /\ TrackFirst

\* one uploadPart call as issued: part index, digest, size, the offset of the
\* reader it is handed, the lease it goes through
Attempt(c, off, lease) ==
  [idx |-> c.id, sha1 |-> c.sha1, size |-> c.size, off |-> off, lease |-> lease]

\* faulty variant of the receive: a goroutine takes a chunk while it is still
\* uploading the one it holds
ReceivingOrBusy(w) == wpc[w] \in {"recv", "inflight"}

\* line 108: goroutine w is blocked in its receive on w.ready, which it
\* reaches from the loop head only (first lease obtained, or the previous
\* chunk uploaded)
Receiving(w) == wpc[w] = "recv"

\* lines 216-230 with 108-115: the send on w.ready meets a goroutine's
\* receive; the goroutine takes the chunk, wraps it in a reader and issues
\* uploadPart; the foreground path advances the chunk index and starts a fresh
\* buffer and hash
Handoff(w) ==
  /\ pc = "s_select" /\ ready = "open" /\ Receiving(w)
  /\ LET c == [id |-> ChunkId, size |-> Len(cbuf), sha1 |-> Sha1Sum(chsh),
               buf |-> cbuf] IN
       /\ wchunk' = [wchunk EXCEPT ![w] = c]
       /\ handed' = Append(handed, c)
       /\ watt' = [watt EXCEPT ![w] = <<Attempt(c, 0, wfc[w])>>]
  /\ wr' = [wr EXCEPT ![w] = 0]
  /\ wpc' = [wpc EXCEPT ![w] = "inflight"]
  /\ calls' = Bump("uploadPart")
  /\ cidx' = cidx + 1
  /\ chsh' = Sha1New
  /\ cbuf' = <<>>
  /\ lateHandoff' = (lateHandoff \/ cancelled)
  /\ pc' = IF sender = "write" THEN "w_geterr" ELSE "c_closeq"
  /\ UNCHANGED <<syncVars, errVars, p, acc, sender, sr, wfc, envVars, stored,
                 okCount, callVars, retVars, simple>>
  /\ TrackFirst

\* lines 223-224: the select takes <-w.ctx.Done(); Write (152-155) or Close
\* (242-245) records the context error and returns
SendChunkCancelled ==
  /\ pc = "s_select" /\ cancelled
  /\ setErr(Canceled)
  /\ IF sender = "write"
       THEN /\ ret' = WriteRet(acc, getErr')
            /\ pc' = "idle"
       ELSE /\ pc' = "c_ret"
            /\ UNCHANGED ret
  /\ p' = <<>> /\ acc' = 0 /\ plen' = 0
  /\ UNCHANGED <<bufVars, syncVars, sender, sr, thVars, envVars, upVars,
                 input, errAtCall, firstClose, histVars>>
  /\ TrackFirst

\* -------------------------------------------------------------------- thread
\* lines 100-106: the goroutine's first getUploadPartURL; on success it joins
\* the WaitGroup (wg.Add(1) runs inside the goroutine) and enters the loop
ThreadLeaseOk(w) ==
  /\ wpc[w] = "lease"
  /\ calls' = Bump("lease")
  /\ wfc' = [wfc EXCEPT ![w] = @ + 1]
  /\ wg' = wg + 1
  /\ wpc' = [wpc EXCEPT ![w] = "recv"]
  /\ UNCHANGED <<bufVars, ready, onceDone, doneDone, CU, errVars, fgVars,
                 wchunk, wr, faults, retryNil, upVars, callVars, retVars,
                 handed, simple, lateHandoff>>
  /\ TrackFirst

\* lines 100-104: the first getUploadPartURL fails: setErr and return, never
\* having joined the WaitGroup
ThreadLeaseFail(w, e) ==
  /\ wpc[w] = "lease"
  /\ e \in FailErrs
  /\ faults' = Pay(e)
  /\ calls' = Bump("lease")
  /\ setErr(e)
  /\ wpc' = [wpc EXCEPT ![w] = "done"]
  /\ UNCHANGED <<bufVars, syncVars, fgVars, wchunk, wr, wfc, retryNil,
                 upVars, callVars, retVars, handed, simple, lateHandoff>>
  /\ TrackFirst

\* lines 108-111: the receive finds the channel closed: return (wg.Done)
ThreadRecvClosed(w) ==
  /\ wpc[w] = "recv" /\ ready = "closed"
  /\ wpc' = [wpc EXCEPT ![w] = "done"]
  /\ wfc' = [wfc EXCEPT ![w] = 0]
  /\ wg' = wg - 1
  /\ UNCHANGED <<bufVars, ready, onceDone, doneDone, CU, errVars, fgVars,
                 wchunk, wr, envVars, upVars, callVars, retVars, histVars>>
  /\ TrackFirst

\* the bytes the reader r still holds for goroutine w
Remaining(w) == wchunk[w].size - wr[w]

\* lines 115-116, 130: uploadPart read the whole payload and returned
\* (chunk.size, nil): loop to the next receive; the chunk and its reader go
\* out of scope
UploadOk(w) ==
  /\ wpc[w] = "inflight"
  /\ wr[w] = 0
  /\ stored' = stored \cup {<<wchunk[w].id, wchunk[w].buf>>}
  /\ okCount' = [okCount EXCEPT ![wchunk[w].id] = @ + 1]
  /\ wchunk' = [wchunk EXCEPT ![w] = NoChunk]
  /\ watt' = [watt EXCEPT ![w] = <<>>]
  /\ wpc' = [wpc EXCEPT ![w] = "recv"]
  /\ UNCHANGED <<bufVars, syncVars, errVars, fgVars, wr, wfc, envVars,
                 callVars, retVars, histVars>>
  /\ TrackFirst

\* the (n, err) pairs a failing uploadPart may return having read k = n bytes:
\* an injected fault (an error, or a short count with a nil error), the
\* context error after cancellation, or the rejection of a payload that no
\* longer starts at its first byte
UploadFailures(rem, size, off) ==
  {o \in (0..rem) \X (UploadErrs \cup {Nil}) :
      /\ o[2] = Nil => (faults > 0 /\ o[1] < size)}
  \cup (IF off > 0 THEN {<<rem, "EFatal1">>} ELSE {})

PayUpload(o, rem, off) ==
  IF o[2] = Canceled \/ (off > 0 /\ o = <<rem, "EFatal1">>) THEN faults
  ELSE faults - 1

\* lines 115-125: uploadPart reported n # chunk.size or an error, the retry
\* predicate accepts the error and getUploadPartURL hands out a new lease:
\* fc = f, goto redo, where uploadPart is issued again with the same reader r
UploadRetry(w) ==
  /\ wpc[w] = "inflight"
  /\ \E o \in UploadFailures(Remaining(w), wchunk[w].size, wr[w]) :
       /\ reupload(o[2])
       /\ faults' = PayUpload(o, Remaining(w), wr[w])
       /\ wr' = [wr EXCEPT ![w] = @ + o[1]]
       /\ watt' = [watt EXCEPT ![w] =
                     Append(@, Attempt(wchunk[w], wr[w] + o[1], wfc[w] + 1))]
  /\ calls' = [calls EXCEPT !["lease"] = @ + 1, !["uploadPart"] = @ + 1]
  /\ wfc' = [wfc EXCEPT ![w] = @ + 1]
  /\ UNCHANGED <<bufVars, syncVars, errVars, fgVars, wpc, wchunk, retryNil,
                 stored, okCount, callVars, retVars, handed, simple,
                 lateHandoff>>
  /\ TrackFirst

\* lines 116-123: as above, but getUploadPartURL fails: setErr and return
\* (wg.Done).  A goroutine that returned keeps the chunk it held (wchunk) on
\* record; its reader and lease are gone
UploadRetryNoLease(w) ==
  /\ wpc[w] = "inflight"
  /\ \E o \in UploadFailures(Remaining(w), wchunk[w].size, wr[w]) :
       /\ reupload(o[2])
       /\ LET left == PayUpload(o, Remaining(w), wr[w]) IN
            \E e \in (IF left > 0 THEN Fatal ELSE {})
                       \cup (IF cancelled THEN {Canceled} ELSE {}) :
              /\ faults' = IF e = Canceled THEN left ELSE left - 1
              /\ setErr(e)
  /\ calls' = Bump("lease")
  /\ wg' = wg - 1
  /\ wpc' = [wpc EXCEPT ![w] = "done"]
  /\ wr' = [wr EXCEPT ![w] = 0]
  /\ wfc' = [wfc EXCEPT ![w] = 0]
  /\ watt' = [watt EXCEPT ![w] = <<>>]
  /\ UNCHANGED <<bufVars, ready, onceDone, doneDone, CU, fgVars, wchunk,
                 retryNil, stored, okCount, callVars, retVars, handed, simple,
                 lateHandoff>>
  /\ TrackFirst

\* lines 116-117, 127-128: the retry predicate rejects the error: setErr(err)
\* (a no-op when err is nil) and return (wg.Done)
UploadFatal(w) ==
  /\ wpc[w] = "inflight"
  /\ \E o \in UploadFailures(Remaining(w), wchunk[w].size, wr[w]) :
       /\ ~reupload(o[2])
       /\ faults' = PayUpload(o, Remaining(w), wr[w])
       /\ setErr(o[2])
  /\ wg' = wg - 1
  /\ wpc' = [wpc EXCEPT ![w] = "done"]
  /\ wr' = [wr EXCEPT ![w] = 0]
  /\ wfc' = [wfc EXCEPT ![w] = 0]
  /\ watt' = [watt EXCEPT ![w] = <<>>]
  /\ UNCHANGED <<bufVars, ready, onceDone, doneDone, CU, fgVars, wchunk,
                 retryNil, stored, okCount, callVars, retVars, histVars>>
  /\ TrackFirst

\* --------------------------------------------------------------------- Close
\* lines 235-246: Close enters done.Do; a later call finds it done and goes
\* to the return; the first picks the simple path (cidx = 0), the flush of the
\* trailing buffer (sendChunk, whose once.Do has run since cidx > 0, so the
\* select is next), or straight the close of the queue
CallClose ==
  /\ pc = "idle"
  /\ doneDone' = TRUE
  /\ sr' = 0
  /\ IF doneDone THEN pc' = "c_ret" /\ UNCHANGED sender
     ELSE IF cidx = 0 THEN pc' = "c_url" /\ UNCHANGED sender
     ELSE IF Len(cbuf) > 0
       THEN pc' = (IF OnceFirst THEN "s_once" ELSE "s_select") /\ sender' = "close"
     ELSE pc' = "c_closeq" /\ UNCHANGED sender
  /\ UNCHANGED <<bufVars, ready, wg, onceDone, CU, errVars, p, acc, thVars,
                 envVars, upVars, callVars, retVars, histVars>>
  /\ TrackFirst

\* lines 164, 179-183: getUploadURL succeeds (first session, or the fresh one
\* of a retry); the bytes.Reader r of line 173 is not made anew on a retry
SimpleURLOk ==
  /\ pc = "c_url"
  /\ calls' = Bump("uploadURL")
  /\ pc' = "c_upload"
  /\ UNCHANGED <<bufVars, syncVars, errVars, p, acc, sender, sr, thVars,
                 envVars, upVars, callVars, retVars, handed, simple,
                 lateHandoff>>
  /\ TrackFirst

\* lines 164-167, 179-182 and 238: getUploadURL fails; Close records the error
SimpleURLFail(e) ==
  /\ pc = "c_url"
  /\ e \in FailErrs
  /\ faults' = Pay(e)
  /\ calls' = Bump("uploadURL")
  /\ setErr(e)
  /\ pc' = "c_ret"
  /\ UNCHANGED <<bufVars, syncVars, p, acc, sender, sr, thVars,
                 retryNil, upVars, callVars, retVars, handed, simple,
                 lateHandoff>>
  /\ TrackFirst

SimpleAttempt(ok) ==
  [off |-> sr, size |-> Len(cbuf), sha1 |-> Sha1Sum(chsh),
   payload |-> SubSeq(cbuf, sr + 1, Len(cbuf)), ok |-> ok]

\* lines 175, 188-189 and 238: uploadFile read the whole buffer and succeeded
SimpleUploadOk ==
  /\ pc = "c_upload"
  /\ sr = 0
  /\ calls' = Bump("uploadFile")
  /\ simple' = Append(simple, SimpleAttempt(TRUE))
  /\ sr' = Len(cbuf)
  /\ setErr(Nil)
  /\ pc' = "c_ret"
  /\ UNCHANGED <<bufVars, syncVars, p, acc, sender, thVars, envVars, upVars,
                 callVars, retVars, handed, lateHandoff>>
  /\ TrackFirst

\* the (k, err) pairs of a failing uploadFile that read k bytes
SimpleFailures(rem) ==
  ((0..rem) \X UploadErrs) \cup (IF sr > 0 THEN {<<rem, "EFatal1">>} ELSE {})

\* lines 175-187 and 238: uploadFile fails; retriable goes for a fresh upload
\* URL, otherwise Close records the error
SimpleUploadFail ==
  /\ pc = "c_upload"
  /\ \E o \in SimpleFailures(Len(cbuf) - sr) :
       /\ faults' = PayUpload(o, Len(cbuf) - sr, sr)
       /\ sr' = sr + o[1]
       /\ IF reupload(o[2])
            THEN /\ pc' = "c_url"
                 /\ UNCHANGED errVars
            ELSE /\ setErr(o[2])
                 /\ pc' = "c_ret"
  /\ calls' = Bump("uploadFile")
  /\ simple' = Append(simple, SimpleAttempt(FALSE))
  /\ UNCHANGED <<bufVars, syncVars, p, acc, sender, thVars, retryNil, upVars,
                 callVars, retVars, handed, lateHandoff>>
  /\ TrackFirst

\* line 247: close(w.ready)
CloseQueue ==
  /\ pc = "c_closeq"
  /\ ready' = "closed"
  /\ pc' = "c_wait"
  /\ UNCHANGED <<bufVars, wg, onceDone, doneDone, CU, errVars, p, acc, sender,
                 sr, thVars, envVars, upVars, callVars, retVars, histVars>>
  /\ TrackFirst

\* line 248: wg.Wait() returns when the counter is zero
CloseWait ==
  /\ pc = "c_wait"
  /\ wg = 0
  /\ pc' = "c_finish"
  /\ UNCHANGED <<bufVars, syncVars, errVars, p, acc, sender, sr, thVars,
                 envVars, upVars, callVars, retVars, histVars>>
  /\ TrackFirst

\* lines 249, 254: finishLargeFile succeeds
FinishOk ==
  /\ pc = "c_finish"
  /\ calls' = Bump("finish")
  /\ pc' = "c_ret"
  /\ UNCHANGED <<bufVars, syncVars, errVars, p, acc, sender, sr, thVars,
                 envVars, upVars, callVars, retVars, handed, simple,
                 lateHandoff>>
  /\ TrackFirst

\* lines 249-253: finishLargeFile fails; Close records the error
FinishFail(e) ==
  /\ pc = "c_finish"
  /\ e \in FailErrs
  /\ faults' = Pay(e)
  /\ calls' = Bump("finish")
  /\ setErr(e)
  /\ pc' = "c_ret"
  /\ UNCHANGED <<bufVars, syncVars, p, acc, sender, sr, thVars,
                 retryNil, upVars, callVars, retVars, handed, simple,
                 lateHandoff>>
  /\ TrackFirst

\* line 256: return w.getErr()
CloseReturn ==
  /\ pc = "c_ret"
  /\ ret' = [op |-> "close", n |-> 0, err |-> getErr]
  /\ firstClose' = IF firstClose = "none" THEN getErr ELSE firstClose
  /\ pc' = "idle"
  /\ UNCHANGED <<bufVars, syncVars, errVars, p, acc, sender, sr, thVars,
                 envVars, upVars, callVars, histVars>>
  /\ TrackFirst

\* ---------------------------------------------------------------------- Next
Next ==
  \/ \E n \in 0..MaxLen : CallWrite(n)
  \/ WriteGetErr
  \/ WriteFits
  \/ WriteFill
  \/ StartLargeFileOk
  \/ \E e \in FailErrs : StartLargeFileFail(e)
  \/ \E w \in Workers : Handoff(w)
  \/ SendChunkCancelled
  \/ \E w \in Workers : ThreadLeaseOk(w)
  \/ \E w \in Workers, e \in FailErrs : ThreadLeaseFail(w, e)
  \/ \E w \in Workers : ThreadRecvClosed(w)
  \/ \E w \in Workers : UploadOk(w)
  \/ \E w \in Workers : UploadRetry(w)
  \/ \E w \in Workers : UploadRetryNoLease(w)
  \/ \E w \in Workers : UploadFatal(w)
  \/ CallClose
  \/ SimpleURLOk
  \/ \E e \in FailErrs : SimpleURLFail(e)
  \/ SimpleUploadOk
  \/ SimpleUploadFail
  \/ CloseQueue
  \/ CloseWait
  \/ FinishOk
  \/ \E e \in FailErrs : FinishFail(e)
  \/ CloseReturn


Spec == Init /\ [][Next]_vars

\* the steps of the foreground path inside a Write or Close call (the caller
\* is free never to call again); its remote calls return and its select
\* takes a case that is ready
Foreground ==
  \/ WriteGetErr
  \/ WriteFits
  \/ WriteFill
  \/ StartLargeFileOk
  \/ \E e \in FailErrs : StartLargeFileFail(e)
  \/ \E w \in Workers : Handoff(w)
  \/ SendChunkCancelled
  \/ SimpleURLOk
  \/ \E e \in FailErrs : SimpleURLFail(e)
  \/ SimpleUploadOk
  \/ SimpleUploadFail
  \/ CloseQueue
  \/ CloseWait
  \/ FinishOk
  \/ \E e \in FailErrs : FinishFail(e)
  \/ CloseReturn

\* the steps of the goroutine w started by thread(); its receive on w.ready
\* is the other half of Handoff(w)
Thread(w) ==
  \/ ThreadLeaseOk(w)
  \/ \E e \in FailErrs : ThreadLeaseFail(w, e)
  \/ ThreadRecvClosed(w)
  \/ Handoff(w)
  \/ UploadOk(w)
  \/ UploadRetry(w)
  \/ UploadRetryNoLease(w)
  \/ UploadFatal(w)

\* the Go scheduler runs every goroutine that can take a step, and every
\* remote call returns
FairSpec ==
  /\ Spec
  /\ WF_vars(Foreground)
  /\ \A w \in Workers : WF_vars(Thread(w))

\* ====================================================================
\* Properties
\* ====================================================================

\* the payload stored under part index i by a successful uploadPart
PartPayload(i) ==
  IF \E s \in stored : s[1] = i
    THEN (CHOOSE s \in stored : s[1] = i)[2]
    ELSE <<>>

\* the parts 1..k assembled in index order
RECURSIVE Assemble(_)
Assemble(k) == IF k = 0 THEN <<>> ELSE Assemble(k - 1) \o PartPayload(k)

\* some uploadFile call succeeded, and with which payload
SimpleOk == \E i \in 1..Len(simple) : simple[i].ok
SimplePayload == (CHOOSE a \in {simple[i] : i \in 1..Len(simple)} : a.ok).payload

\* every chunk handed off has had a successful uploadPart of its whole payload
AllPartsUploaded ==
  \A i \in 1..Len(handed) :
     /\ <<handed[i].id, handed[i].buf>> \in stored
     /\ okCount[handed[i].id] >= 1

\* the first Close has returned nil
CloseReturnedNil == firstClose = Nil

\* C1: if Close returns nil, every chunk handed off was uploaded in full
\* without error and finish (multipart path) or uploadFile (simple path)
\* succeeded.  (A goroutine that returns while holding a chunk that was not
\* uploaded, with no error recorded, is what lets Close return nil.)
C1_CloseAuthoritative ==
  CloseReturnedNil =>
     /\ AllPartsUploaded
     /\ IF cidx = 0 THEN SimpleOk ELSE calls.finish = 1

\* C2: a failure-free session whose total length is at most the threshold
\* (the threshold itself included) ends with exactly one uploadFile call and
\* no startLargeFile, getUploadPartURL, uploadPart or finishLargeFile call.
C2_SmallIsSimple ==
  (firstClose # "none" /\ Len(input) <= CSize /\ faults = MaxFaults) =>
     /\ calls.uploadFile = 1
     /\ calls.start = 0 /\ calls.lease = 0
     /\ calls.uploadPart = 0 /\ calls.finish = 0

\* C3: startLargeFile is never called twice, and once the caller's Write
\* calls have offered more than the threshold it has been called exactly once,
\* however many flushes and goroutines there are.
C3_StartOnce ==
  /\ calls.start <= 1
  /\ (pc = "idle" /\ Len(input) > CSize) => calls.start = 1

\* C3 witness: two flushes (one from Write, one from Close), one start
C3_Witness ==
  /\ Len(handed) = 2 /\ calls.start = 1 /\ Len(input) > CSize /\ CU = 2

\* C4: when Close returns nil, the parts uploaded successfully, put together
\* in index order (or the one simple-upload payload), are the input; every
\* chunk but the last has exactly the threshold size and the last has between
\* 1 and threshold bytes.
C4_RoundTrip ==
  CloseReturnedNil =>
     /\ IF cidx = 0 THEN SimpleOk /\ SimplePayload = input
                    ELSE Assemble(cidx) = input
     /\ \A i \in 1..Len(handed) :
          IF i < Len(handed) THEN handed[i].size = CSize
          ELSE handed[i].size \in 1..CSize

\* C5: the chunks handed off so far carry the ids 1..cidx in hand-off order;
\* cidx counts the hand-offs that succeeded and nothing else.
C5_ChunkIds ==
  /\ Len(handed) = cidx
  /\ \A i \in 1..Len(handed) : handed[i].id = i

\* C5 witness: one hand-off delivered, then the hand-off of Close's trailing
\* chunk abandoned on cancellation (the buffer is still there), cidx left at 1
C5_Witness ==
  /\ cidx = 1 /\ Len(handed) = 1
  /\ firstClose \notin {"none", Nil} /\ Len(cbuf) > 0

\* C6: a later Close returns the error value the first Close returned.
C6_CloseIdempotent ==
  (pc = "idle" /\ ret.op = "close" /\ firstClose # "none") => ret.err = firstClose

\* the foreground step in which a Write returns / a Close returns
WriteReturns == pc \in {"w_geterr", "w_buf", "s_once", "s_select"} /\ pc' = "idle"
CloseReturns == pc = "c_ret" /\ pc' = "idle"

\* C7 as claimed: every Write and every Close that returns after an error was
\* recorded returns that first recorded error.
C7_ReturnAfterError ==
  [][((WriteReturns \/ CloseReturns) /\ err # Nil) =>
        (ret'.err # Nil /\ ret'.err = firstErr)]_vars

\* C7 as amended: every Write that is called after an error was recorded, and
\* every Close that returns after an error was recorded, returns that first
\* recorded error; no Write or Close ever returns an error other than the
\* first recorded one (not the error the cancelled select gave, not a later
\* error).
C7_CallAfterError ==
  [][/\ (WriteReturns /\ errAtCall # Nil) =>
          (ret'.err # Nil /\ ret'.err = firstErr)
     /\ (CloseReturns /\ err # Nil) =>
          (ret'.err # Nil /\ ret'.err = firstErr)
     /\ (WriteReturns \/ CloseReturns) => ret'.err \in {Nil, firstErr'}]_vars

\* C7 witness: a Write called after a goroutine's error was recorded has
\* returned it, and a second, different error was offered to setErr since
C7_Witness ==
  /\ pc = "idle" /\ ret.op = "write" /\ errAtCall # Nil
  /\ ret.err = firstErr /\ cidx >= 1
  /\ faults = 0

\* C8: once the session is cancelled no chunk is delivered to a goroutine and
\* no goroutine starts uploading a chunk.
C8_NothingAfterCancel == ~lateHandoff

\* C9: a retry issues uploadPart with the same part index, digest and size,
\* through a new lease, with the complete payload from its first byte.
C9_RetrySameChunk ==
  \A w \in Workers : \A i \in 2..Len(watt[w]) :
     /\ watt[w][i].idx = watt[w][i - 1].idx
     /\ watt[w][i].sha1 = watt[w][i - 1].sha1
     /\ watt[w][i].size = watt[w][i - 1].size
     /\ watt[w][i].lease # watt[w][i - 1].lease
     /\ watt[w][i].off = 0

\* C10: a Write called while an error is recorded returns (0, that error) in
\* its first step, leaving buffer, hash, chunk index and queue as they were
\* and calling nothing remote.
C10_WriteAfterError ==
  [][(pc = "w_geterr" /\ errAtCall # Nil /\ pc' # pc) =>
        /\ pc' = "idle"
        /\ ret' = [op |-> "write", n |-> 0, err |-> errAtCall]
        /\ UNCHANGED <<cbuf, chsh, cidx, ready, calls, handed>>]_vars

\* C10 witness: such a Write, of at least one byte, has returned: bytes were
\* offered that are neither in the buffer nor in a chunk
C10_Witness ==
  /\ pc = "idle" /\ ret.op = "write" /\ errAtCall # Nil
  /\ ret.n = 0 /\ ret.err = errAtCall
  /\ Len(input) > Len(cbuf) + CSize * cidx

\* the bytes (stream positions) the Writer holds in its buffer or has handed
\* off in a chunk
Kept(b, h) ==
  {b[i] : i \in 1..Len(b)}
    \cup UNION {{h[j].buf[i] : i \in 1..Len(h[j].buf)} : j \in 1..Len(h)}

\* C11: a Write that returns a nil error returns len(p) and has taken all of
\* p; a Write that returns an error returns a count n in 0..len(p), and the
\* bytes of p that are in the buffer or in handed-off chunks are exactly the
\* first n of p, across the recursive flushes of one call.
C11_WriteAccounting ==
  [][WriteReturns =>
       LET start == Len(input) - plen
           kept  == Kept(cbuf', handed') \cap ((start + 1)..Len(input))
       IN  /\ ret'.op = "write"
           /\ ret'.n \in 0..plen
           /\ ret'.err = Nil => ret'.n = plen
           /\ kept = (start + 1)..(start + ret'.n)]_vars

\* C11 witness: a Write of more than one chunk that began without error has
\* returned an error and a count that is neither 0 nor len(p): the bytes
\* counted are in a handed-off chunk, the rest of p was dropped
C11_Witness ==
  /\ pc = "idle" /\ ret.op = "write" /\ errAtCall = Nil
  /\ ret.err # Nil /\ ret.n = CSize /\ cidx = 1 /\ cbuf = <<>>
  /\ Len(input) = MaxLen /\ Kept(cbuf, handed) = 1..CSize

\* goroutine w was started by the session and has not returned yet
Running(w) == wpc[w] \in {"lease", "recv", "inflight"}

\* C12: on the multipart path, once wg.Wait has returned and finishLargeFile
\* is about to be or has been invoked, or once Close has returned, no
\* goroutine the session started is still running (none is still getting its
\* first lease), so w.err can no longer change before finish.
C12_FinishAfterWorkers ==
  (cidx > 0 /\ (pc = "c_finish" \/ calls.finish > 0 \/ firstClose # "none"))
     => \A w \in Workers : ~Running(w)

\* finishLargeFile is about to be invoked (wg.Wait has returned) or has been
FinishInvoked == pc = "c_finish" \/ calls.finish > 0

\* C13: finishLargeFile is invoked at most once; from the moment it is
\* invoked no uploadPart call is in flight (so none starts afterwards), and
\* every chunk handed off was either uploaded successfully or is held by a
\* goroutine that returned with a failure on record.
C13_FinishQuiescent ==
  /\ calls.finish <= 1
  /\ FinishInvoked =>
       /\ \A w \in Workers : wpc[w] # "inflight"
       /\ \A i \in 1..Len(handed) :
            \/ okCount[handed[i].id] >= 1
            \/ /\ \E w \in Workers : wpc[w] = "done" /\ wchunk[w].id = handed[i].id
               /\ err # Nil

\* C14: when Close is at the call of finishLargeFile, every chunk handed off
\* has a successful upload and no error is recorded.
C14_FinishOnlyAfterSuccess ==
  pc = "c_finish" => (AllPartsUploaded /\ err = Nil)

\* the step in which the first Close call enters done.Do
FirstCloseCalled == pc = "idle" /\ ~doneDone /\ doneDone'

\* C15: a first Close that starts while an error is recorded goes straight
\* to its return: it does not enter simpleWriteFile, does not hand off the
\* trailing buffer, does not close the queue on the way to finishLargeFile.
C15_CloseShortCircuits ==
  [][(FirstCloseCalled /\ err # Nil) => pc' = "c_ret"]_vars

\* C16: no session has called both startLargeFile and a simple-upload call
\* (getUploadURL or uploadFile), a failed startLargeFile included.
C16_PathsExclusive ==
  ~(calls.start > 0 /\ (calls.uploadURL > 0 \/ calls.uploadFile > 0))

\* C17: once w.err is non-nil it never changes; w.cancel is called in the
\* very step in which w.err goes from nil to non-nil and in no other step,
\* hence at most once; a setErr(nil) (after a successful uploadFile) changes
\* nothing.
C17_FirstErrorWins ==
  [][/\ err # Nil => err' = err
     /\ ncancel' = IF err = Nil /\ err' # Nil THEN ncancel + 1 ELSE ncancel
     /\ cancelled' = (err' # Nil)
     /\ ncancel' <= 1
     /\ (pc = "c_upload" /\ SimpleOk') => UNCHANGED errVars]_vars

\* C17 witness: both goroutines failed their first getUploadPartURL with an
\* injected error, so setErr was called twice with a non-nil error: the first
\* one is recorded and the context was cancelled once
C17_Witness ==
  /\ wpc[1] = "done" /\ wpc[2] = "done" /\ cidx = 0 /\ calls.lease = 2
  /\ faults = MaxFaults - 2
  /\ err \in Fatal /\ err = firstErr /\ cancelled /\ ncancel = 1

\* the foreground path is inside sendChunk, at once.Do or at the select
HandoffPending == pc \in {"s_once", "s_select"}

\* C18: under fair scheduling every sendChunk call started by Write or by
\* Close returns: the chunk is delivered to a goroutine or the select takes
\* the cancellation.
C18_HandoffCompletes == HandoffPending ~> ~HandoffPending

\* C19: under fair scheduling every goroutine that is running once Close has
\* been called returns eventually: its receive is released by the closed
\* queue or by the cancellation.
C19_WorkersTerminate ==
  \A w \in Workers : (doneDone /\ Running(w)) ~> ~Running(w)

\* the goroutines that hold chunk i (received it and have not uploaded it)
Holders(i) == {w \in Workers : wchunk[w].id = i}

\* every chunk handed off is either uploaded, once, or held by exactly one
\* goroutine; all uploadPart calls of a goroutine are for the chunk it holds
OneOwner ==
  /\ \A i \in 1..Len(handed) :
        /\ okCount[handed[i].id] <= 1
        /\ Cardinality(Holders(handed[i].id)) + okCount[handed[i].id] = 1
  /\ \A w \in Workers :
        /\ wpc[w] = "inflight" => wchunk[w].id \in 1..Len(handed)
        /\ \A k \in 1..Len(watt[w]) : watt[w][k].idx = wchunk[w].id

\* C20: each chunk handed off is received by exactly one goroutine, which
\* alone issues uploadPart for that part index; no part index is uploaded
\* successfully twice; a goroutine receives a chunk only while it holds none,
\* the one it held before having been uploaded successfully.
C20_OneWorkerPerChunk ==
  [][/\ OneOwner'
     /\ \A w \in Workers :
          (wchunk'[w] # wchunk[w] /\ wchunk'[w] # NoChunk) =>
             /\ wchunk[w] = NoChunk /\ wpc[w] = "recv"
             /\ wchunk'[w] = handed'[Len(handed')]
             /\ Len(handed') = Len(handed) + 1]_vars

\* C20 witness: the one goroutine of the session has uploaded chunk 1 and is
\* uploading chunk 2
C20_Witness ==
  /\ CU = 1 /\ okCount[1] = 1 /\ wpc[1] = "inflight" /\ wchunk[1].id = 2
  /\ Holders(1) = {} /\ Holders(2) = {1}

====
